---- MODULE Spec2Model ----
(***************************************************************************)
(* code-analyze (src/src/main.rs): a line-oriented pattern analyzer.       *)
(* Text is modelled as sequences of one-character strings, the patterns of *)
(* the rule catalog as syntax trees matched with the semantics of the      *)
(* regex crate (unanchored search, no look-around).                        *)
(***************************************************************************)
EXTENDS Integers, Sequences, FiniteSets, TLC

VARIABLES
  pc,                \* position of main
  cli,               \* the parsed command line (struct Cli)
  exists,            \* environment: Path::new(&cli.path).exists()
  walk,              \* environment: what WalkDir::new(path) yields, in order
  rules,             \* the Vec<TextRule> under construction / built
  idx,               \* number of entries of walk consumed by analyze_path
  results,           \* Vec<AnalysisResult> accumulated by analyze_path
  filtered_results,  \* the list handed to print_results
  stdout,            \* what was printed on the output stream
  stderr,            \* what was printed on the error stream
  exit_code,         \* process status, -1 while running
  reads              \* paths fs::read_to_string was called on, in order

vars == <<pc, cli, exists, walk, rules, idx, results, filtered_results,
          stdout, stderr, exit_code, reads>>

---------------------------------------------------------------------------
(* Characters *)

Lower == {"a", "b", "c", "d", "e", "f", "g", "h", "i", "j", "k", "l", "m",
          "n", "o", "p", "q", "r", "s", "t", "u", "v", "w", "x", "y", "z"}

Upper == {"A", "B", "C", "D", "E", "F", "G", "H", "I", "J", "K", "L", "M",
          "N", "O", "P", "Q", "R", "S", "T", "U", "V", "W", "X", "Y", "Z"}

Digit == {"0", "1", "2", "3", "4", "5", "6", "7", "8", "9"}

\* \w of the regex crate, restricted to the characters of the model
WordChar == Lower \cup Upper \cup Digit \cup {"_"}

\* \s of the regex crate and char::is_whitespace, restricted likewise
WhiteSpace == {" ", "\t", "\r", "\n"}

LowerOf == [c \in Upper |->
  CASE c = "A" -> "a" [] c = "B" -> "b" [] c = "C" -> "c" [] c = "D" -> "d"
    [] c = "E" -> "e" [] c = "F" -> "f" [] c = "G" -> "g" [] c = "H" -> "h"
    [] c = "I" -> "i" [] c = "J" -> "j" [] c = "K" -> "k" [] c = "L" -> "l"
    [] c = "M" -> "m" [] c = "N" -> "n" [] c = "O" -> "o" [] c = "P" -> "p"
    [] c = "Q" -> "q" [] c = "R" -> "r" [] c = "S" -> "s" [] c = "T" -> "t"
    [] c = "U" -> "u" [] c = "V" -> "v" [] c = "W" -> "w" [] c = "X" -> "x"
    [] c = "Y" -> "y" [] c = "Z" -> "z"]

\* str::to_lowercase
to_lowercase(s) == [i \in 1..Len(s) |-> IF s[i] \in Upper THEN LowerOf[s[i]] ELSE s[i]]

\* str::starts_with
starts_with(s, p) == Len(p) <= Len(s) /\ SubSeq(s, 1, Len(p)) = p

\* str::contains
contains(s, p) == \E i \in 0..(Len(s) - Len(p)) : SubSeq(s, i + 1, i + Len(p)) = p

\* the least and the greatest element of a non-empty set of integers
MinOf(S) == CHOOSE i \in S : \A j \in S : i <= j

MaxOf(S) == CHOOSE i \in S : \A j \in S : j <= i

\* str::trim: white space removed at both ends
trim(s) ==
  LET keep == {i \in 1..Len(s) : s[i] \notin WhiteSpace}
  IN IF keep = {} THEN <<>> ELSE SubSeq(s, MinOf(keep), MaxOf(keep))

\* position of the first "\n" of s, Len(s) + 1 when there is none
NextNewline(s) ==
  LET nl == {i \in 1..Len(s) : s[i] = "\n"}
  IN IF nl = {} THEN Len(s) + 1 ELSE MinOf(nl)

\* str::lines: split at "\n", a "\r" before it dropped, no empty last line
RECURSIVE lines(_)
lines(s) ==
  IF s = <<>> THEN <<>>
  ELSE LET n == NextNewline(s)
           raw == SubSeq(s, 1, n - 1)
           line == IF n <= Len(s) /\ raw # <<>> /\ raw[Len(raw)] = "\r"
                   THEN SubSeq(raw, 1, Len(raw) - 1) ELSE raw
       IN <<line>> \o lines(SubSeq(s, n + 1, Len(s)))

---------------------------------------------------------------------------
(* Patterns: syntax trees and the regex crate's matching *)

Lit(s) == <<"lit", s>>           \* a literal string
Cls(S) == <<"cls", S>>           \* one character of S
NCls(S) == <<"ncls", S>>         \* one character not of S
Dot == <<"dot">>                 \* . : any character but "\n"
Cat(ns) == <<"cat", ns>>         \* concatenation
Alt(ns) == <<"alt", ns>>         \* alternation
Star(n) == <<"star", n>>         \* n*
Plus(n) == <<"plus", n>>         \* n+
Opt(n) == <<"opt", n>>           \* n?
AtLeast(n, k) == <<"min", n, k>> \* n{k,}
WordB == <<"wb">>                \* \b
Bol == <<"bol">>                 \* ^
Eol == <<"eol">>                 \* $
NotAhead(n) == <<"nla", n>>      \* (?!n)

\* \b at offset p of s
IsWordBoundary(s, p) ==
  (p > 0 /\ s[p] \in WordChar) # (p < Len(s) /\ s[p + 1] \in WordChar)

\* whether the one-character pattern n (a class or .) matches character c
MatchesChar(n, c) ==
  CASE n[1] = "cls" -> c \in n[2]
    [] n[1] = "ncls" -> c \notin n[2]
    [] n[1] = "dot" -> c # "\n"

\* the offsets where a run of at least k characters matching the
\* one-character pattern n, started at an offset of P, can end
RunEnds(n, k, s, P) ==
  {j \in 0..Len(s) : \E p \in P : /\ p + k <= j
                                  /\ \A i \in (p + 1)..j : MatchesChar(n, s[i])}

\* Ends(n, s, P): the offsets where a match of n that starts at an offset of P
\* can end; the catalog repeats one-character patterns only
RECURSIVE Ends(_, _, _)
RECURSIVE CatEnds(_, _, _, _)
RECURSIVE AltEnds(_, _, _, _)

Ends(n, s, P) ==
  IF P = {} THEN {}
  ELSE CASE n[1] = "lit" ->
              {p + Len(n[2]) : p \in {q \in P : /\ q + Len(n[2]) <= Len(s)
                                                /\ SubSeq(s, q + 1, q + Len(n[2])) = n[2]}}
         [] n[1] \in {"cls", "ncls", "dot"} ->
              {p + 1 : p \in {q \in P : q < Len(s) /\ MatchesChar(n, s[q + 1])}}
         [] n[1] = "cat" -> CatEnds(n[2], 1, s, P)
         [] n[1] = "alt" -> AltEnds(n[2], 1, s, P)
         [] n[1] = "star" -> RunEnds(n[2], 0, s, P)
         [] n[1] = "plus" -> RunEnds(n[2], 1, s, P)
         [] n[1] = "opt" -> P \cup Ends(n[2], s, P)
         [] n[1] = "min" -> RunEnds(n[2], n[3], s, P)
         [] n[1] = "wb" -> {p \in P : IsWordBoundary(s, p)}
         [] n[1] = "bol" -> {p \in P : p = 0}
         [] n[1] = "eol" -> {p \in P : p = Len(s)}
         [] n[1] = "nla" -> {p \in P : Ends(n[2], s, {p}) = {}}

CatEnds(ns, i, s, P) ==
  IF P = {} THEN {}
  ELSE IF i > Len(ns) THEN P
  ELSE CatEnds(ns, i + 1, s, Ends(ns[i], s, P))

AltEnds(ns, i, s, P) ==
  IF i > Len(ns) THEN {} ELSE Ends(ns[i], s, P) \cup AltEnds(ns, i + 1, s, P)

\* Regex::is_match: an unanchored search
is_match(re, s) == Ends(re, s, 0..Len(s)) # {}

\* Regex::new(pattern).is_ok(): the regex crate rejects look-around
RECURSIVE RegexCompiles(_)
RECURSIVE AllCompile(_, _)
RegexCompiles(n) ==
  CASE n[1] \in {"cat", "alt"} -> AllCompile(n[2], 1)
    [] n[1] \in {"star", "plus", "opt", "min"} -> RegexCompiles(n[2])
    [] n[1] = "nla" -> FALSE
    [] OTHER -> TRUE

AllCompile(ns, i) ==
  i > Len(ns) \/ (RegexCompiles(ns[i]) /\ AllCompile(ns, i + 1))

---------------------------------------------------------------------------
(* The rule catalog *)

Space == Cls(WhiteSpace)

\* r"unsafe\s*\{"
PatUnsafeBlock == Cat(<<Lit(<<"u", "n", "s", "a", "f", "e">>), Star(Space), Lit(<<"{">>)>>)

\* r"\.unwrap\(\)"
PatUnwrap == Lit(<<".", "u", "n", "w", "r", "a", "p", "(", ")">>)

\* r"\.expect\([^)]*\)"
PatExpect ==
  Cat(<<Lit(<<".", "e", "x", "p", "e", "c", "t", "(">>), Star(NCls({")"})), Lit(<<")">>)>>)

\* r"//\s*TODO:?\s*.+"
PatTodo ==
  Cat(<<Lit(<<"/", "/">>), Star(Space), Lit(<<"T", "O", "D", "O">>),
        Opt(Lit(<<":">>)), Star(Space), Plus(Dot)>>)

\* r"//\s*FIXME:?\s*.+"
PatFixme ==
  Cat(<<Lit(<<"/", "/">>), Star(Space), Lit(<<"F", "I", "X", "M", "E">>),
        Opt(Lit(<<":">>)), Star(Space), Plus(Dot)>>)

\* r"\b(gets|strcpy|sprintf)\s*\("
PatUnsafeFunction ==
  Cat(<<WordB,
        Alt(<<Lit(<<"g", "e", "t", "s">>),
              Lit(<<"s", "t", "r", "c", "p", "y">>),
              Lit(<<"s", "p", "r", "i", "n", "t", "f">>)>>),
        Star(Space),
        Lit(<<"(">>)>>)

\* r"malloc\s*\("
PatMalloc == Cat(<<Lit(<<"m", "a", "l", "l", "o", "c">>), Star(Space), Lit(<<"(">>)>>)

\* r"printf\s*\("
PatPrintf == Cat(<<Lit(<<"p", "r", "i", "n", "t", "f">>), Star(Space), Lit(<<"(">>)>>)

\* the repetition count of r"^.{100,}$"
LongLineMin == 100

\* r"^.{100,}$"
PatLongLine == Cat(<<Bol, AtLeast(Dot, LongLineMin), Eol>>)

\* the (?x) pattern of magic-number, its white space and comments dropped:
\* \b(0\b|-1\b|1\b|(?:10|100|1000|255|256|1024|60|3600|24|7|8080|3000|3306)\b)
\* (?!\.\d)(?!\()(?!\w)
PatMagicNumber ==
  Cat(<<WordB,
        Alt(<<Cat(<<Lit(<<"0">>), WordB>>),
              Cat(<<Lit(<<"-", "1">>), WordB>>),
              Cat(<<Lit(<<"1">>), WordB>>),
              Cat(<<Alt(<<Lit(<<"1", "0">>), Lit(<<"1", "0", "0">>), Lit(<<"1", "0", "0", "0">>),
                          Lit(<<"2", "5", "5">>), Lit(<<"2", "5", "6">>),
                          Lit(<<"1", "0", "2", "4">>), Lit(<<"6", "0">>),
                          Lit(<<"3", "6", "0", "0">>), Lit(<<"2", "4">>), Lit(<<"7">>),
                          Lit(<<"8", "0", "8", "0">>), Lit(<<"3", "0", "0", "0">>),
                          Lit(<<"3", "3", "0", "6">>)>>),
                    WordB>>)>>),
        NotAhead(Cat(<<Lit(<<".">>), Cls(Digit)>>)),
        NotAhead(Lit(<<"(">>)),
        NotAhead(Cls(WordChar))>>)

\* the arguments of the ten TextRule::new calls of get_text_rules, in order
\* (the messages are abbreviated to ASCII tags)
CatalogArgs ==
  << [name |-> "rust-unsafe-block", pattern |-> PatUnsafeBlock,
      message |-> "unsafe block found", severity |-> "Warning",
      languages |-> <<"rust">>],
     [name |-> "rust-unwrap", pattern |-> PatUnwrap,
      message |-> "unwrap() may panic", severity |-> "Warning",
      languages |-> <<"rust">>],
     [name |-> "rust-expect", pattern |-> PatExpect,
      message |-> "expect() may panic", severity |-> "Warning",
      languages |-> <<"rust">>],
     [name |-> "rust-todo", pattern |-> PatTodo,
      message |-> "TODO comment found", severity |-> "Info",
      languages |-> <<"rust">>],
     [name |-> "rust-fixme", pattern |-> PatFixme,
      message |-> "FIXME comment found", severity |-> "Info",
      languages |-> <<"rust">>],
     [name |-> "c-unsafe-function", pattern |-> PatUnsafeFunction,
      message |-> "unsafe function used", severity |-> "Error",
      languages |-> <<"c", "cpp">>],
     [name |-> "c-malloc-without-free", pattern |-> PatMalloc,
      message |-> "malloc without free check", severity |-> "Warning",
      languages |-> <<"c", "cpp">>],
     [name |-> "c-printf-format", pattern |-> PatPrintf,
      message |-> "printf instead of fprintf/std::cout", severity |-> "Info",
      languages |-> <<"c", "cpp">>],
     [name |-> "long-line", pattern |-> PatLongLine,
      message |-> "line longer than 100 characters", severity |-> "Warning",
      languages |-> <<"rust", "c", "cpp">>],
     [name |-> "magic-number", pattern |-> PatMagicNumber,
      message |-> "possible magic number", severity |-> "Info",
      languages |-> <<"rust", "c", "cpp">>] >>

\* TextRule::new: Regex::new(pattern).unwrap() panics when the pattern does
\* not compile; otherwise the rule is built from the arguments
TextRuleNewPanics(args) == ~RegexCompiles(args.pattern)

TextRuleNew(args) == args

---------------------------------------------------------------------------
(* The matching engine *)

\* matches_language
matches_language(extension, language) ==
  CASE language = "rust" -> extension = <<"r", "s">>
    [] language = "c" -> extension = <<"c">>
    [] language = "cpp" -> \/ extension = <<"c", "p", "p">>
                           \/ extension = <<"c", "x", "x">>
                           \/ extension = <<"c", "c">>
                           \/ extension = <<"h", "p", "p">>
    [] OTHER -> FALSE

\* mutant of is_comment_line: the filter applied whatever the extension
is_comment_line_any_extension(line, extension) ==
  starts_with(line, <<"/", "/">>) \/ starts_with(line, <<"/", "*">>) \/ starts_with(line, <<"*">>)

\* is_comment_line
is_comment_line(line, extension) ==
  CASE extension = <<"r", "s">> ->
         \/ starts_with(line, <<"/", "/">>)
         \/ starts_with(line, <<"/", "*">>)
         \/ starts_with(line, <<"*">>)
    [] extension \in {<<"c">>, <<"c", "p", "p">>, <<"h">>, <<"h", "p", "p">>} ->
         \/ starts_with(line, <<"/", "/">>)
         \/ starts_with(line, <<"/", "*">>)
         \/ starts_with(line, <<"*">>)
    [] OTHER -> FALSE

\* r"\b\d{1,3}\.\d{1,3}\.\d{1,3}\.\d{1,3}\b", \d{1,3} written as \d\d?\d?
PatIp ==
  LET d3 == Cat(<<Cls(Digit), Opt(Cls(Digit)), Opt(Cls(Digit))>>)
  IN Cat(<<WordB, d3, Lit(<<".">>), d3, Lit(<<".">>), d3, Lit(<<".">>), d3, WordB>>)

\* is_false_positive
is_false_positive(line, rule_name) ==
  IF rule_name = "magic-number"
  THEN \/ contains(line, <<"[">>) /\ contains(line, <<"]">>)
       \/ contains(line, <<"v", "e", "r", "s", "i", "o", "n">>)
       \/ contains(line, <<"v", "1", ".">>)
       \/ contains(line, <<"v", "0", ".">>)
       \/ is_match(PatIp, line)
  ELSE FALSE

\* the file name of a path: what follows its last "/"
RECURSIVE FileName(_)
FileName(p) ==
  IF \E i \in 1..Len(p) : p[i] = "/"
  THEN FileName(SubSeq(p, (CHOOSE i \in 1..Len(p) : p[i] = "/") + 1, Len(p)))
  ELSE p

\* Path::extension, unwrap_or(""): what follows the last "." of the file
\* name, unless the name has no "." or only a leading one
path_extension(p) ==
  LET f == FileName(p)
      dots == {i \in 1..Len(f) : f[i] = "."}
  IN IF dots = {} THEN <<>>
     ELSE LET d == CHOOSE i \in dots : \A j \in dots : j <= i
          IN IF d = 1 THEN <<>> ELSE SubSeq(f, d + 1, Len(f))

\* mutant of enumerate_lines: blank lines dropped before the numbering
enumerate_nonblank_lines(content) ==
  LET IsNonBlank(l) == trim(l) # <<>>
      ls == SelectSeq(lines(content), IsNonBlank)
  IN [i \in 1..Len(ls) |-> <<i - 1, ls[i]>>]

\* content.lines().enumerate(): pairs <<line_num, line>>, line_num from 0
enumerate_lines(content) ==
  LET ls == lines(content) IN [i \in 1..Len(ls) |-> <<i - 1, ls[i]>>]

\* rule.languages.iter().any(|lang| matches_language(&extension, lang))
rule_applies(rule, extension) ==
  \E k \in 1..Len(rule.languages) : matches_language(extension, rule.languages[k])

\* the body of `for rule in rules`, from rule i on, for one trimmed line
RECURSIVE rule_loop(_, _, _, _, _, _)
rule_loop(path, extension, line_num, line, rs, i) ==
  IF i > Len(rs) THEN <<>>
  ELSE LET rule == rs[i]
           hit == /\ rule_applies(rule, extension)
                  /\ is_match(rule.pattern, line)
                  /\ ~is_false_positive(line, rule.name)
       IN (IF hit
           THEN << [file |-> path,
                    line |-> line_num + 1,
                    message |-> rule.message,
                    severity |-> rule.severity,
                    rule_name |-> rule.name,
                    code_snippet |-> line] >>
           ELSE <<>>)
          \o rule_loop(path, extension, line_num, line, rs, i + 1)

\* mutant of line_results: the rules evaluated before the comment filter,
\* which is then never consulted
line_results_match_first(path, extension, numbered, rs) ==
  LET line == trim(numbered[2])
  IN IF line = <<>> THEN <<>>
     ELSE rule_loop(path, extension, numbered[1], line, rs, 1)

\* the body of `for (line_num, line) in content.lines().enumerate()`
line_results(path, extension, numbered, rs) ==
  LET line == trim(numbered[2])
  IN IF line = <<>> THEN <<>>
     ELSE IF is_comment_line(line, extension) THEN <<>>
     ELSE rule_loop(path, extension, numbered[1], line, rs, 1)

RECURSIVE line_loop(_, _, _, _, _)
line_loop(path, extension, numbered, rs, i) ==
  IF i > Len(numbered) THEN <<>>
  ELSE line_results(path, extension, numbered[i], rs)
       \o line_loop(path, extension, numbered, rs, i + 1)

\* analyze_file; read is the outcome of fs::read_to_string(path):
\* [ok |-> FALSE] or [ok |-> TRUE, content |-> text]
analyze_file(path, read, rs) ==
  IF ~read.ok THEN <<>>
  ELSE line_loop(path, to_lowercase(path_extension(path)),
                 enumerate_lines(read.content), rs, 1)

\* the built-in exclusions of should_ignore
BuiltinIgnores ==
  { <<"/", "t", "a", "r", "g", "e", "t", "/">>,
    <<"/", ".", "g", "i", "t", "/">>,
    <<"/", "n", "o", "d", "e", "_", "m", "o", "d", "u", "l", "e", "s", "/">>,
    <<"/", "b", "u", "i", "l", "d", "/">> }

\* mutant of should_ignore: a path is ignored when all user patterns match
should_ignore_all(path, ignore_patterns) ==
  \/ \E b \in BuiltinIgnores : contains(path, b)
  \/ /\ ignore_patterns # <<>>
     /\ \A k \in 1..Len(ignore_patterns) : contains(path, ignore_patterns[k])

\* should_ignore
should_ignore(path, ignore_patterns) ==
  \/ \E b \in BuiltinIgnores : contains(path, b)
  \/ \E k \in 1..Len(ignore_patterns) : contains(path, ignore_patterns[k])

---------------------------------------------------------------------------
(* Reporting *)

\* mutant of is_error: everything but Info kept
is_not_info(r) == r.severity # "Info"

\* the closure of results.into_iter().filter(..) in main
is_error(r) == r.severity = "Error"

\* main's errors-only step: the list handed to print_results
filter_results(rs, errors_only) ==
  IF errors_only THEN SelectSeq(rs, is_error) ELSE rs

\* the severity letter of print_compact_results
severity_char(severity) ==
  CASE severity = "Error" -> "E"
    [] severity = "Warning" -> "W"
    [] severity = "Info" -> "I"

\* Severity::to_colored_string
to_colored_string(severity) ==
  CASE severity = "Error" -> "ERROR"
    [] severity = "Info" -> "INFO"
    [] severity = "Warning" -> "WARNING"

\* number of results of a severity
count_severity(rs, severity) ==
  Cardinality({i \in 1..Len(rs) : rs[i].severity = severity})

\* print_compact_results: one printed line per result
print_compact_results(rs) ==
  [i \in 1..Len(rs) |->
     <<"compact", rs[i].file, rs[i].line, severity_char(rs[i].severity),
       rs[i].rule_name, rs[i].message>>]

\* the five printed lines of one result in print_text_results
RECURSIVE text_blocks(_, _)
text_blocks(rs, i) ==
  IF i > Len(rs) THEN <<>>
  ELSE << <<"head", to_colored_string(rs[i].severity), rs[i].file, rs[i].line>>,
          <<"rule", rs[i].rule_name>>,
          <<"message", rs[i].message>>,
          <<"code", rs[i].code_snippet>>,
          <<"blank">> >> \o text_blocks(rs, i + 1)

\* print_text_results
print_text_results(rs) ==
  IF rs = <<>> THEN << <<"no problems found">> >>
  ELSE << <<"title">>, <<"rule line">> >>
       \o text_blocks(rs, 1)
       \o << <<"statistics">>,
             <<"errors", count_severity(rs, "Error")>>,
             <<"warnings", count_severity(rs, "Warning")>>,
             <<"notes", count_severity(rs, "Info")>>,
             <<"total", Len(rs)>> >>

\* print_results
print_results(rs, format) ==
  CASE format = "Text" -> print_text_results(rs)
    [] format = "Compact" -> print_compact_results(rs)

---------------------------------------------------------------------------
(* Inputs *)

\* most fragments a file content is made of
MaxFrags == 3

\* most entries a directory walk yields
MaxEntries == 3

\* how far around the long-line threshold the line lengths range
LongSlack == 3

\* the pieces file contents are put together from: a line feed, two spaces,
\* "// TODO: a", "//FIXME b", "v.unwrap();", "strcpy(d, s);",
\* "*p = malloc (n);", "/*" and "x = 10;"
Fragments ==
  { <<"\n">>,
    <<" ", " ">>,
    <<"/", "/", " ", "T", "O", "D", "O", ":", " ", "a">>,
    <<"/", "/", "F", "I", "X", "M", "E", " ", "b">>,
    <<"v", ".", "u", "n", "w", "r", "a", "p", "(", ")", ";">>,
    <<"s", "t", "r", "c", "p", "y", "(", "d", ",", " ", "s", ")", ";">>,
    <<"*", "p", " ", "=", " ", "m", "a", "l", "l", "o", "c", " ", "(", "n", ")", ";">>,
    <<"/", "*">>,
    <<"x", " ", "=", " ", "1", "0", ";">> }

RECURSIVE Concats(_)
Concats(k) ==
  IF k = 0 THEN {<<>>}
  ELSE LET shorter == Concats(k - 1)
       IN shorter \cup {c \o f : c \in shorter, f \in Fragments}

\* file contents of at most MaxFrags fragments
Contents == Concats(MaxFrags)

\* paths of the single-file runs: the extensions the code tells apart, one
\* in upper case, one it does not know, and a dot file, which has none
FilePaths ==
  { <<"r", "/", "a", ".", "r", "s">>, <<"r", "/", "b", ".", "R", "S">>,
    <<"r", "/", "a", ".", "c">>, <<"r", "/", "a", ".", "c", "p", "p">>,
    <<"r", "/", "a", ".", "c", "c">>, <<"r", "/", "a", ".", "c", "x", "x">>,
    <<"r", "/", "a", ".", "h">>, <<"r", "/", "a", ".", "h", "p", "p">>,
    <<"r", "/", "a", ".", "p", "y">>, <<"r", "/", ".", "r", "s">> }

\* outcomes of fs::read_to_string
Unreadable == [ok |-> FALSE]

Readable(content) == [ok |-> TRUE, content |-> content]

\* a file entry of a walk
FileEntry(path, read) == [kind |-> "file", path |-> path, read |-> read]

\* a line of n characters
Pad(n) == [i \in 1..n |-> "a"]

\* single lines around the long-line threshold, bare, indented or followed
\* by white space, also as a comment
LongContents ==
  { pre \o start \o Pad(n) \o post :
      pre \in {<<>>, <<" ", " ">>}, start \in {<<>>, <<"/", "/">>},
      n \in (LongLineMin - LongSlack)..(LongLineMin + LongSlack),
      post \in {<<>>, <<" ", "\n">>} }

\* user --ignore arguments
IgnoreArgs == { <<>>, <<<<"/", "x", "/">>>>, <<<<".", "c">>>>, <<<<"/", "x", "/">>, <<".", "c">>>> }

\* the files of a walked tree: a C file, a Rust file in a directory a user
\* pattern names, a C file under target, a Rust file no pattern names
TreeFiles ==
  { << <<"r", "/", "a", ".", "c">>,
       \* sprintf(b); malloc(n); gets(s); on three lines
       <<"s", "p", "r", "i", "n", "t", "f", "(", "b", ")", ";", "\n">>
       \o <<"m", "a", "l", "l", "o", "c", "(", "n", ")", ";", "\n">>
       \o <<"g", "e", "t", "s", "(", "s", ")", ";">> >>,
    << <<"r", "/", "x", "/", "b", ".", "r", "s">>,
       <<"v", ".", "u", "n", "w", "r", "a", "p", "(", ")", ";">> >>,
    << <<"r", "/", "t", "a", "r", "g", "e", "t", "/", "c", ".", "c">>,
       <<"s", "t", "r", "c", "p", "y", "(", "d", ",", " ", "s", ")", ";">> >>,
    <<<<"r", "/", "m", ".", "r", "s">>, <<"\n", "u", "n", "s", "a", "f", "e", " ", "{">>>> }

\* the files of the tree that may be unreadable
UnreadablePaths == { <<"r", "/", "a", ".", "c">>, <<"r", "/", "m", ".", "r", "s">> }

\* what a walk can yield: an error, a directory, a file
Entries ==
  { [kind |-> "error"], [kind |-> "dir", path |-> <<"r", "/", "x">>] }
  \cup { FileEntry(p, Unreadable) : p \in UnreadablePaths }
  \cup { FileEntry(f[1], Readable(f[2])) : f \in TreeFiles }

RECURSIVE WalksOf(_)
WalksOf(k) ==
  IF k = 0 THEN {<<>>}
  ELSE LET shorter == WalksOf(k - 1)
       IN shorter \cup {Append(w, e) : w \in shorter, e \in Entries}

\* a walk yields a path once
NoRepeat(w) ==
  \A i, j \in 1..Len(w) :
    (i # j /\ w[i].kind # "error" /\ w[j].kind # "error") => w[i].path # w[j].path

Walks == {w \in WalksOf(MaxEntries) : NoRepeat(w)}

CliArgs ==
  [path : {<<"r">>}, errors_only : BOOLEAN, format : {"Text", "Compact"},
   ignore : IgnoreArgs]

\* the rules of the catalog that TextRule::new builds
RECURSIVE BuiltRules(_)
BuiltRules(i) ==
  IF i > Len(CatalogArgs) THEN <<>>
  ELSE (IF TextRuleNewPanics(CatalogArgs[i]) THEN <<>>
        ELSE <<TextRuleNew(CatalogArgs[i])>>) \o BuiltRules(i + 1)

---------------------------------------------------------------------------
(* main *)

\* the state main starts in, the command line parsed
Init ==
  /\ pc = "main"
  /\ cli \in CliArgs
  /\ exists \in BOOLEAN
  /\ walk \in (IF exists THEN Walks ELSE {<<[kind |-> "error"]>>})
  /\ rules = <<>>
  /\ idx = 0
  /\ results = <<>>
  /\ filtered_results = <<>>
  /\ stdout = <<>>
  /\ stderr = <<>>
  /\ exit_code = -1
  /\ reads = <<>>

\* mutant of main_no_path: the error is printed and the process goes on
main_no_path_goes_on ==
  /\ pc = "main"
  /\ ~exists
  /\ stderr' = Append(stderr, <<"path does not exist", cli.path>>)
  /\ pc' = "get_text_rules"
  /\ UNCHANGED <<cli, exists, walk, rules, idx, results, filtered_results,
                 stdout, exit_code, reads>>

\* main, lines 93-96: a root that does not exist ends the process with 1
main_no_path ==
  /\ pc = "main"
  /\ ~exists
  /\ stderr' = Append(stderr, <<"path does not exist", cli.path>>)
  /\ exit_code' = 1
  /\ pc' = "exit"
  /\ UNCHANGED <<cli, exists, walk, rules, idx, results, filtered_results,
                 stdout, reads>>

\* main, line 98: analyze_path is entered, get_text_rules called
main_analyze_path ==
  /\ pc = "main"
  /\ exists
  /\ pc' = "get_text_rules"
  /\ UNCHANGED <<cli, exists, walk, rules, idx, results, filtered_results,
                 stdout, stderr, exit_code, reads>>

\* get_text_rules: the next TextRule::new call of vec![..] returns a rule
text_rule_new ==
  /\ pc = "get_text_rules"
  /\ Len(rules) < Len(CatalogArgs)
  /\ ~TextRuleNewPanics(CatalogArgs[Len(rules) + 1])
  /\ rules' = Append(rules, TextRuleNew(CatalogArgs[Len(rules) + 1]))
  /\ UNCHANGED <<pc, cli, exists, walk, idx, results, filtered_results,
                 stdout, stderr, exit_code, reads>>

\* get_text_rules: the unwrap of the next TextRule::new call panics
text_rule_panic ==
  /\ pc = "get_text_rules"
  /\ Len(rules) < Len(CatalogArgs)
  /\ TextRuleNewPanics(CatalogArgs[Len(rules) + 1])
  /\ stderr' = Append(stderr, <<"panic", CatalogArgs[Len(rules) + 1].name>>)
  /\ exit_code' = 101
  /\ pc' = "panic"
  /\ UNCHANGED <<cli, exists, walk, rules, idx, results, filtered_results,
                 stdout, reads>>

\* mutant of walk_error: an entry that is an error ends the traversal
walk_error_break ==
  /\ pc = "walk"
  /\ idx < Len(walk)
  /\ walk[idx + 1].kind = "error"
  /\ filtered_results' = filter_results(results, cli.errors_only)
  /\ pc' = "print"
  /\ UNCHANGED <<cli, exists, walk, rules, idx, results,
                 stdout, stderr, exit_code, reads>>

\* analyze_path, line 292: an entry that is an error is skipped
walk_error ==
  /\ pc = "walk"
  /\ idx < Len(walk)
  /\ walk[idx + 1].kind = "error"
  /\ idx' = idx + 1
  /\ UNCHANGED <<pc, cli, exists, walk, rules, results, filtered_results,
                 stdout, stderr, exit_code, reads>>

\* analyze_path, line 295: an entry that is no file is passed over
walk_dir ==
  /\ pc = "walk"
  /\ idx < Len(walk)
  /\ walk[idx + 1].kind = "dir"
  /\ idx' = idx + 1
  /\ UNCHANGED <<pc, cli, exists, walk, rules, results, filtered_results,
                 stdout, stderr, exit_code, reads>>

\* analyze_path, line 299: an ignored file is passed over
walk_ignored ==
  /\ pc = "walk"
  /\ idx < Len(walk)
  /\ walk[idx + 1].kind = "file"
  /\ should_ignore(walk[idx + 1].path, cli.ignore)
  /\ idx' = idx + 1
  /\ UNCHANGED <<pc, cli, exists, walk, rules, results, filtered_results,
                 stdout, stderr, exit_code, reads>>

\* analyze_path, lines 303-304: a file is analyzed, its results appended
walk_file ==
  /\ pc = "walk"
  /\ idx < Len(walk)
  /\ walk[idx + 1].kind = "file"
  /\ ~should_ignore(walk[idx + 1].path, cli.ignore)
  /\ reads' = Append(reads, walk[idx + 1].path)
  /\ results' = results \o analyze_file(walk[idx + 1].path, walk[idx + 1].read, rules)
  /\ idx' = idx + 1
  /\ UNCHANGED <<pc, cli, exists, walk, rules, filtered_results,
                 stdout, stderr, exit_code>>

\* analyze_path returns; main, lines 99-105, filters
main_filter ==
  /\ pc = "walk"
  /\ idx = Len(walk)
  /\ filtered_results' = filter_results(results, cli.errors_only)
  /\ pc' = "print"
  /\ UNCHANGED <<cli, exists, walk, rules, idx, results,
                 stdout, stderr, exit_code, reads>>

\* main, line 107: the report is printed and main returns
main_print ==
  /\ pc = "print"
  /\ stdout' = stdout \o print_results(filtered_results, cli.format)
  /\ exit_code' = 0
  /\ pc' = "done"
  /\ UNCHANGED <<cli, exists, walk, rules, idx, results, filtered_results,
                 stderr, reads>>

\* a run of the program
Next ==
  \/ main_no_path
  \/ main_analyze_path
  \/ text_rule_new
  \/ text_rule_panic

Spec == Init /\ [][Next]_vars

\* analyze_path from its loop on, with the rules TextRule::new builds
InitPath ==
  /\ pc = "walk"
  /\ cli \in CliArgs
  /\ exists = TRUE
  /\ walk \in Walks
  /\ rules = BuiltRules(1)
  /\ idx = 0
  /\ results = <<>>
  /\ filtered_results = <<>>
  /\ stdout = <<>>
  /\ stderr = <<>>
  /\ exit_code = -1
  /\ reads = <<>>

NextPath ==
  \/ walk_error
  \/ walk_dir
  \/ walk_ignored
  \/ walk_file
  \/ main_filter
  \/ main_print

SpecPath == InitPath /\ [][NextPath]_vars

\* analyze_file on one file, with the rules TextRule::new builds
InitFile ==
  /\ pc = "walk"
  /\ cli = [path |-> <<"r">>, errors_only |-> FALSE, format |-> "Text", ignore |-> <<>>]
  /\ exists = TRUE
  /\ walk \in { <<FileEntry(p, r)>> :
                  p \in FilePaths,
                  r \in {Unreadable} \cup {Readable(c) : c \in Contents} }
  /\ rules = BuiltRules(1)
  /\ idx = 0
  /\ results = <<>>
  /\ filtered_results = <<>>
  /\ stdout = <<>>
  /\ stderr = <<>>
  /\ exit_code = -1
  /\ reads = <<>>

NextFile == walk_file

SpecFile == InitFile /\ [][NextFile]_vars

\* analyze_file on one file of one line around the long-line threshold
InitLong ==
  /\ pc = "walk"
  /\ cli = [path |-> <<"r">>, errors_only |-> FALSE, format |-> "Text", ignore |-> <<>>]
  /\ exists = TRUE
  /\ walk \in { <<FileEntry(p, Readable(c))>> : p \in FilePaths, c \in LongContents }
  /\ rules = BuiltRules(1)
  /\ idx = 0
  /\ results = <<>>
  /\ filtered_results = <<>>
  /\ stdout = <<>>
  /\ stderr = <<>>
  /\ exit_code = -1
  /\ reads = <<>>

SpecLong == InitLong /\ [][NextFile]_vars

---------------------------------------------------------------------------
(* Properties *)

\* the single file of a SpecFile or SpecLong run, once analyze_file returned
Analyzed == idx = 1 /\ Len(walk) = 1 /\ walk[1].kind = "file"

TheFile == walk[1]

TheExt == to_lowercase(path_extension(TheFile.path))

\* the offsets of the line feeds of a text
NewlinesOf(c) == {i \in 1..Len(c) : c[i] = "\n"}

\* the offset of the k-th line feed of a text
NthNewline(c, k) ==
  CHOOSE i \in NewlinesOf(c) : Cardinality({j \in NewlinesOf(c) : j <= i}) = k

\* number of physical lines of a text: one per line feed, and the rest
NumPhysical(c) ==
  Cardinality(NewlinesOf(c)) + (IF c # <<>> /\ c[Len(c)] # "\n" THEN 1 ELSE 0)

\* the k-th physical line of a text, trimmed: what lies between line feed
\* k - 1 and line feed k
PhysicalLine(c, k) ==
  trim(SubSeq(c,
              IF k = 1 THEN 1 ELSE NthNewline(c, k - 1) + 1,
              IF k <= Cardinality(NewlinesOf(c)) THEN NthNewline(c, k) - 1 ELSE Len(c)))

\* the physical lines of the analyzed file (none when it could not be read)
TheLines ==
  IF TheFile.read.ok
  THEN [k \in 1..NumPhysical(TheFile.read.content) |-> PhysicalLine(TheFile.read.content, k)]
  ELSE <<>>

\* a trimmed line that starts like a comment
CommentStart(line) ==
  starts_with(line, <<"/", "/">>) \/ starts_with(line, <<"/", "*">>) \/ starts_with(line, <<"*">>)

\* the extensions with comment filtering
CommentExts == {<<"r", "s">>, <<"c">>, <<"c", "p", "p">>, <<"h">>, <<"h", "p", "p">>}

\* number of diagnostics of a rule for a line
Emitted(name, k) ==
  Cardinality({i \in 1..Len(results) : results[i].rule_name = name /\ results[i].line = k})

\* the conditions under which a rule is to report a trimmed line
Reportable(rule, line, ext) ==
  /\ line # <<>>
  /\ ~(ext \in CommentExts /\ CommentStart(line))
  /\ is_match(rule.pattern, line)
  /\ \E k \in 1..Len(rule.languages) : matches_language(ext, rule.languages[k])
  /\ ~is_false_positive(line, rule.name)

\* C1: for the analyzed file, each physical line and each of the ten rules of
\* the catalog, exactly one diagnostic with the rule's name is emitted for the
\* line when it is reportable, and none otherwise.
C1_OnePerLineAndRule ==
  Analyzed =>
    \A k \in 1..Len(TheLines) : \A r \in 1..Len(CatalogArgs) :
      Emitted(CatalogArgs[r].name, k)
        = (IF Reportable(CatalogArgs[r], TheLines[k], TheExt) THEN 1 ELSE 0)

\* C1 for the rules TextRule::new builds (all but magic-number)
C1_BuiltRules ==
  Analyzed =>
    /\ \A k \in 1..Len(TheLines) : \A r \in 1..Len(rules) :
         Emitted(rules[r].name, k)
           = (IF Reportable(rules[r], TheLines[k], TheExt) THEN 1 ELSE 0)
    /\ \A i \in 1..Len(results) :
         /\ results[i].line \in 1..Len(TheLines)
         /\ \E r \in 1..Len(rules) : rules[r].name = results[i].rule_name

\* C2: the line of every diagnostic is the 1-based position of a physical
\* line of the file content, the one its snippet is the trimmed text of.
C2_PhysicalLineNumbers ==
  Analyzed =>
    \A i \in 1..Len(results) :
      /\ results[i].line \in 1..Len(TheLines)
      /\ results[i].code_snippet = TheLines[results[i].line]

\* C2 witness: a diagnostic for a line that follows a skipped (blank or
\* comment-only) line, so that its number exceeds its rank among the lines
\* not skipped
C2_Witness ==
  /\ Analyzed
  /\ \E i \in 1..Len(results) :
       /\ results[i].line >= 2
       /\ LET first == TheLines[1]
          IN first = <<>> \/ (TheExt \in CommentExts /\ CommentStart(first))

\* C8: in a file with extension rs, c, cpp, h or hpp no line that starts with
\* //, /* or * has a diagnostic; in a file of any other extension a line is
\* never skipped as a comment: each rule that applies to it and matches it
\* reports it, also when it starts with //, /* or *.
C8_CommentGating ==
  Analyzed =>
    \A k \in 1..Len(TheLines) :
      IF TheExt \in CommentExts
      THEN CommentStart(TheLines[k]) => \A i \in 1..Len(results) : results[i].line # k
      ELSE \A r \in 1..Len(rules) :
             ( /\ TheLines[k] # <<>>
               /\ rule_applies(rules[r], TheExt)
               /\ is_match(rules[r].pattern, TheLines[k])
               /\ ~is_false_positive(TheLines[k], rules[r].name) )
             => Emitted(rules[r].name, k) = 1

\* C8 witness: in a .cc file a line that starts like a comment is reported by
\* a c/cpp rule
C8_Witness ==
  /\ Analyzed
  /\ TheExt = <<"c", "c">>
  /\ \E i \in 1..Len(results) :
       /\ CommentStart(results[i].code_snippet)
       /\ results[i].rule_name = "c-unsafe-function"

TodoRules == {"rust-todo", "rust-fixme"}

\* C9 as stated: no diagnostic of rust-todo or rust-fixme is ever emitted.
C9_TodoNeverFires ==
  \A i \in 1..Len(results) : results[i].rule_name \notin TodoRules

\* C9 as amended: rust-todo and rust-fixme never report a line that starts
\* with //, /* or *; what they report is a line of a .rs file that carries
\* the marker after other text.
C9_TodoOnlyAfterCode ==
  Analyzed =>
    \A i \in 1..Len(results) :
      results[i].rule_name \in TodoRules =>
        /\ TheExt = <<"r", "s">>
        /\ ~CommentStart(results[i].code_snippet)
        /\ \E p \in 1..Len(results[i].code_snippet) :
             SubSeq(results[i].code_snippet, p + 1, p + 2) = <<"/", "/">>

\* C9 witness: rust-todo reports a line
C9_Witness ==
  /\ Analyzed
  /\ \E i \in 1..Len(results) : results[i].rule_name = "rust-todo"

\* the file extension is classified under rust, c or cpp
Classified(ext) == \E l \in {"rust", "c", "cpp"} : matches_language(ext, l)

\* C10: for a non-empty, non-comment line of a rust, c or cpp file, long-line
\* reports the line exactly when its trimmed length is greater than 100.
C10_LongLineOver100 ==
  Analyzed =>
    \A k \in 1..Len(TheLines) :
      ( /\ TheLines[k] # <<>>
        /\ ~(TheExt \in CommentExts /\ CommentStart(TheLines[k]))
        /\ Classified(TheExt) )
      => (Emitted("long-line", k) >= 1 <=> Len(TheLines[k]) > 100)

\* the positions of the Error diagnostics of a list
ErrorsOf(rs) == {i \in 1..Len(rs) : rs[i].severity = "Error"}

\* C3: with --errors-only the list handed to the reporter is the subsequence
\* of the Error diagnostics of the unfiltered list, in their order; without
\* the flag it is the unfiltered list.
C3_ErrorsOnlySubsequence ==
  pc \in {"print", "done"} =>
    IF cli.errors_only
    THEN /\ Len(filtered_results) = Cardinality(ErrorsOf(results))
         /\ \A i \in ErrorsOf(results) :
              filtered_results[Cardinality({j \in ErrorsOf(results) : j <= i})] = results[i]
    ELSE filtered_results = results

\* C3 witness: --errors-only drops diagnostics between two Error diagnostics
\* that it keeps
C3_Witness ==
  /\ pc = "print"
  /\ cli.errors_only
  /\ Len(filtered_results) >= 2
  /\ \E i, j, k \in 1..Len(results) :
       /\ i < j /\ j < k
       /\ results[i].severity = "Error"
       /\ results[j].severity # "Error"
       /\ results[k].severity = "Error"

\* the user ignore lists made of patterns of a list
SubArgs(q) == {p \in IgnoreArgs : \A k \in 1..Len(p) : \E m \in 1..Len(q) : p[k] = q[m]}

\* C4: a file scanned under the user patterns of the run is scanned under
\* every subset of them, and no scanned path contains a built-in exclusion.
C4_IgnoreMonotonic ==
  \A k \in 1..Len(reads) :
    /\ \A p \in SubArgs(cli.ignore) : ~should_ignore(reads[k], p)
    /\ \A b \in { <<"/", "t", "a", "r", "g", "e", "t", "/">>,
                  <<"/", ".", "g", "i", "t", "/">>,
                  <<"/", "n", "o", "d", "e", "_", "m", "o", "d", "u", "l", "e", "s", "/">>,
                  <<"/", "b", "u", "i", "l", "d", "/">> } :
         ~contains(reads[k], b)

\* C4 witness: under two user patterns a file is scanned, another is ignored
\* by a user pattern, another by a built-in exclusion
C4_Witness ==
  /\ Len(cli.ignore) = 2
  /\ idx = Len(walk)
  /\ reads # <<>>
  /\ \E i, j \in 1..Len(walk) :
       /\ walk[i].kind = "file" /\ walk[j].kind = "file"
       /\ contains(walk[i].path, <<"/", "t", "a", "r", "g", "e", "t", "/">>)
       /\ ~should_ignore(walk[j].path, <<>>)
       /\ should_ignore(walk[j].path, cli.ignore)

\* an entry that is an error, or a file that cannot be read
Unusable(e) == e.kind = "error" \/ (e.kind = "file" /\ ~e.read.ok)

Usable(e) == ~Unusable(e)

\* the diagnostics of a tree, file after file
RECURSIVE TreeResults(_, _, _)
TreeResults(w, ignore, rs) ==
  IF w = <<>> THEN <<>>
  ELSE (IF Head(w).kind = "file" /\ ~should_ignore(Head(w).path, ignore)
        THEN analyze_file(Head(w).path, Head(w).read, rs)
        ELSE <<>>) \o TreeResults(Tail(w), ignore, rs)

\* C7: the accumulated diagnostics are those of the tree without its
\* unreadable files and its error entries, in the same order, and such an
\* entry does not end the traversal.
C7_UnreadableSkipped ==
  /\ results = TreeResults(SelectSeq(SubSeq(walk, 1, idx), Usable), cli.ignore, rules)
  /\ pc \in {"print", "done"} => idx = Len(walk)
  /\ exit_code \in {-1, 0}

\* C7 witness: the run ends with diagnostics of files on both sides of an
\* unreadable file and of an error entry
C7_Witness ==
  /\ pc = "done"
  /\ exit_code = 0
  /\ \E i, j \in 1..Len(walk) :
       /\ i < j
       /\ Unusable(walk[i])
       /\ walk[i].kind = "file" => ~should_ignore(walk[i].path, cli.ignore)
       /\ walk[j].kind = "file"
       /\ \E d \in 1..Len(results) : results[d].file = walk[j].path

\* C5: when the root path does not exist the process ends with status 1 and
\* nothing else happened: no rule built, no entry traversed, no file read,
\* nothing printed on the output stream.
C5_MissingRootExitsFirst ==
  ~exists =>
    /\ pc \in {"main", "exit"}
    /\ pc = "exit" => exit_code = 1
    /\ rules = <<>>
    /\ idx = 0
    /\ reads = <<>>
    /\ results = <<>>
    /\ stdout = <<>>

\* C5 witness: the run of a missing root has ended
C5_Witness == ~exists /\ pc = "exit" /\ exit_code = 1 /\ stderr # <<>>

\* C6: a run whose root exists builds the catalog without failing and its
\* status is 0; only a missing root ends the process abnormally.
C6_ExistingRootSucceeds ==
  exists => (pc # "panic" /\ exit_code \in {-1, 0})

====
